---- MODULE Spec2Model ----
(***************************************************************************)
(* A model of scr/analyzer.py: analyze_data, the pipeline that loads a     *)
(* measurement sheet, reports its invalid values, cleans it, writes the    *)
(* overall reports and then, when grouping is configured, the per-group    *)
(* reports.  Floats and cell values are tokens ("1.0", "nan", "inf"); a    *)
(* dataset is a sequence of rows, each row a record over the columns plus  *)
(* its index label, which pandas keeps through masks and concat.           *)
(***************************************************************************)
EXTENDS Naturals, Sequences, FiniteSets

VARIABLES pc, stage, config, df, diag, log, interactive, output_dir,
          data_columns, prep, spec_data, actual_data, groups, gi, group_data,
          exc, result

vars == <<pc, stage, config, df, diag, log, interactive, output_dir,
          data_columns, prep, spec_data, actual_data, groups, gi, group_data,
          exc, result>>

\* ------------------------------------------------------------------ bounds
\* The longest run of data rows a loaded sheet holds.
MaxDataRows == 3

\* ------------------------------------------------------------ cell values
NaN == "nan"
NonFinite == {"nan", "inf", "-inf"}
None == "None"

\* np.isfinite on one cell of a numeric column.
IsFinite(v) == v \notin NonFinite

\* pandas' elementwise ==: a missing value equals nothing, itself included.
Eq(a, b) == a # NaN /\ b # NaN /\ a = b

\* ---------------------------------------------------------------- schema
Columns == <<"SN", "Batch", "Width", "Height">>
NumericDtype == {"Width", "Height"}

ColumnSet == {Columns[i] : i \in 1..Len(Columns)}

\* dict.get(key, default)
Get(d, k, default) == IF k \in DOMAIN d THEN d[k] ELSE default

EmptyDict == [k \in {} |-> TRUE]

PlotKeys == {"enable_distribution", "enable_boxplot", "enable_correlation",
             "enable_group_boxplot", "enable_all_columns_compare"}

\* ------------------------------------------------------------------ inputs
\* config.DATA_PROCESSING['group_analysis'] as the caller may have written it.
GroupAnalysisDicts ==
  { EmptyDict,
    [enabled |-> FALSE, group_by |-> "Batch"],
    [enabled |-> TRUE],
    [enabled |-> TRUE, group_by |-> "Lot"],
    [enabled |-> TRUE, group_by |-> "Batch"] }

DataProcessingDicts ==
  {EmptyDict} \cup {[group_analysis |-> g] : g \in GroupAnalysisDicts}

PlotDicts ==
  { EmptyDict,
    [k \in PlotKeys |-> FALSE],
    [enable_distribution |-> FALSE],
    [enable_group_boxplot |-> FALSE, enable_correlation |-> FALSE] }

Configs == [DATA_PROCESSING : DataProcessingDicts, PLOT : PlotDicts]

MkRow(sn, batch, w, h) ==
  [idx |-> 0, SN |-> sn, Batch |-> batch, Width |-> w, Height |-> h]

LSLRow == MkRow("LSL", NaN, "1.0", NaN)
LSLRow2 == MkRow("LSL", NaN, "2.0", "1.0")
USLRow == MkRow("USL", NaN, "5.0", NaN)
USLRowS == MkRow("USL", "S", "5.0", "9.0")

\* Where the LSL/USL rows sit around the data rows: <<before, after>>.
SpecLayouts ==
  { << <<>>, <<>> >>,
    << <<LSLRow, USLRow>>, <<>> >>,
    << <<LSLRow>>, <<USLRowS>> >>,
    << <<USLRowS>>, <<>> >>,
    << <<LSLRow, LSLRow2>>, <<USLRow>> >> }

BatchValues == {"A", "B", NaN}

\* Sheets that vary the group column over valid measurements.
GroupingSheets ==
  { lay[1] \o rows \o lay[2] :
      lay \in SpecLayouts,
      rows \in UNION { [1..n -> {MkRow("P", b, "3.0", "2.0") : b \in BatchValues}]
                       : n \in 0..MaxDataRows } }

Measurements == { <<"3.0", "2.0">>, <<"nan", "2.0">>, <<"inf", "nan">>, <<"-inf", "2.0">> }

\* Sheets that vary the measurements; the batches alternate A, B, A, ...
QualitySheets ==
  { <<LSLRow, USLRow>> \o
    [i \in DOMAIN m |-> MkRow("P", IF i % 2 = 1 THEN "A" ELSE "B", m[i][1], m[i][2])] :
      m \in UNION { [1..n -> Measurements] : n \in 1..MaxDataRows } }

Sheets == GroupingSheets \cup QualitySheets
\* ---------------------------------------------------------------- frames
\* The sheet as read_excel returns it: a RangeIndex 0..n-1 over its rows.
WithIndex(rows) == [i \in 1..Len(rows) |-> [rows[i] EXCEPT !.idx = i - 1]]

\* The dtype pandas gives a column: a column with nothing but missing cells
\* is float64 whatever it was meant to hold.
IsNumericColumn(d, c) ==
  \/ c \in NumericDtype
  \/ Len(d) > 0 /\ \A i \in 1..Len(d) : d[i][c] = NaN

\* df.select_dtypes(include=[np.number]).columns
numeric_columns(d) == SelectSeq(Columns, LAMBDA c : IsNumericColumn(d, c))

\* The count with np.isnan in place of ~np.isfinite: infinities are missed.
InvalidCountNaNOnly(d, c) == Cardinality({i \in 1..Len(d) : d[i][c] = NaN})

\* (~np.isfinite(df[col])).sum()
InvalidCount(d, c) == Cardinality({i \in 1..Len(d) : ~IsFinite(d[i][c])})

\* The prints of the check loop, in order: one line per column that holds
\* an invalid value, or the single line saying none was found.
RECURSIVE InvalidLines(_, _)
InvalidLines(d, cols) ==
  IF cols = <<>> THEN <<>>
  ELSE LET c == Head(cols)
           n == InvalidCount(d, c)
       IN  (IF n > 0 THEN <<[msg |-> "invalid", col |-> c, n |-> n]>> ELSE <<>>)
           \o InvalidLines(d, Tail(cols))

CheckPrints(d) ==
  LET lines == InvalidLines(d, numeric_columns(d))
  IN  IF lines = <<>> THEN <<[msg |-> "none_found", col |-> "", n |-> 0]>>
      ELSE lines

\* df['SN'].isin(['LSL', 'USL'])
spec_mask(r) == r.SN \in {"LSL", "USL"}

SpecRowsOf(d) == SelectSeq(d, spec_mask)
DataRowsOf(d) == SelectSeq(d, LAMBDA r : ~spec_mask(r))

\* Series.unique(): the distinct values in order of first appearance; the
\* missing value counts as one value.
RECURSIVE Unique(_)
Unique(s) ==
  IF s = <<>> THEN <<>>
  ELSE LET u == Unique(SubSeq(s, 1, Len(s) - 1))
           x == s[Len(s)]
       IN  IF \E i \in 1..Len(u) : u[i] = x THEN u ELSE Append(u, x)

ColumnValues(d, c) == [i \in 1..Len(d) |-> d[i][c]]

\* The keys with each value kept at its last occurrence, not its first.
GroupKeysLastSeen(actual, group_by) ==
  LET vals == ColumnValues(actual, group_by)
      rev(q) == [i \in 1..Len(q) |-> q[Len(q) + 1 - i]]
  IN  rev(Unique(rev(vals)))

\* actual_data[group_by].unique()
GroupKeys(actual, group_by) == Unique(ColumnValues(actual, group_by))

\* The group's frame without the LSL/USL rows.
GroupFrameNoSpec(specs, actual, group_by, group_name) ==
  SelectSeq(actual, LAMBDA r : Eq(r[group_by], group_name))

\* pd.concat([spec_data, actual_data[actual_data[group_by] == group_name]])
GroupFrame(specs, actual, group_by, group_name) ==
  specs \o SelectSeq(actual, LAMBDA r : Eq(r[group_by], group_name))

\* ----------------------------------------------------------- collaborators
CleaningPolicies == {"drop", "replace"}
Sentinel == "0.0"

\* data_processing.clean_data: resolves the non-finite measurements of the
\* data rows by the policy; identifier, group column and LSL/USL rows stay.
clean_data(d, policy) ==
  IF policy = "drop"
  THEN SelectSeq(d, LAMBDA r : spec_mask(r) \/ \A c \in NumericDtype : IsFinite(r[c]))
  ELSE [i \in 1..Len(d) |->
          IF spec_mask(d[i]) THEN d[i]
          ELSE [c \in DOMAIN d[i] |->
                  IF c \in NumericDtype /\ ~IsFinite(d[i][c]) THEN Sentinel
                  ELSE d[i][c]]]

GroupingEnabled(cfg) ==
  Get(Get(cfg.DATA_PROCESSING, "group_analysis", EmptyDict), "enabled", FALSE)

\* data_processing.get_data_columns: the numeric columns in sheet order,
\* without the identifier and, when grouping is on, without the group column.
get_data_columns(d, cfg) ==
  LET ga == Get(cfg.DATA_PROCESSING, "group_analysis", EmptyDict)
  IN  SelectSeq(Columns, LAMBDA c :
        /\ IsNumericColumn(d, c)
        /\ c # "SN"
        /\ ~(GroupingEnabled(cfg) /\ c = Get(ga, "group_by", None)))

RowsTagged(d, kind) == SelectSeq(d, LAMBDA r : r.SN = kind)

\* More than one LSL row, or more than one USL row.
AmbiguousSpecRows(d) == Len(RowsTagged(d, "LSL")) > 1 \/ Len(RowsTagged(d, "USL")) > 1

LimitValues(d, kind) ==
  [c \in NumericDtype |->
     IF RowsTagged(d, kind) = <<>> THEN None
     ELSE IF IsFinite(RowsTagged(d, kind)[1][c]) THEN RowsTagged(d, kind)[1][c]
     ELSE None]

\* data_processing.preprocess_data, on a frame it accepts.
preprocess_data(d) ==
  [data_df |-> DataRowsOf(d),
   lsl_values |-> LimitValues(d, "LSL"),
   usl_values |-> LimitValues(d, "USL")]

NoPrep == [data_df |-> <<>>,
           lsl_values |-> [c \in NumericDtype |-> None],
           usl_values |-> [c \in NumericDtype |-> None]]
\* ------------------------------------------------------------------ output
\* One effect on the output tree or one collaborator call, as the run makes
\* it: `at` is the block of analyze_data that made it, dir, key, sub and file
\* the path it touches, `data` the frame handed to preprocess_data.
Ev(at, op, dir, key, sub, file, data) ==
  [at |-> at, op |-> op, dir |-> dir, key |-> key, sub |-> sub, file |-> file,
   data |-> data]

PlotOn(cfg, flag) == Get(cfg.PLOT, flag, TRUE)

\* generate_plots: the collaborator calls it makes, each with the file the
\* call's figure is saved to, in order.
generate_plots(cols, dir, key, cfg, at) ==
  <<Ev(at, "export_statistics", dir, key, "", "", <<>>)>>
  \o (IF PlotOn(cfg, "enable_distribution")
      THEN <<Ev(at, "plot_distributions", dir, key, "", "distribution_plots.png", <<>>)>>
           \o [i \in 1..Len(cols) |->
                 Ev(at, "plot_single_distribution", dir, key, "single_distributions",
                    cols[i], <<>>)]
      ELSE <<>>)
  \o (IF PlotOn(cfg, "enable_boxplot")
      THEN <<Ev(at, "plot_boxplots", dir, key, "", "boxplot.png", <<>>)>>
      ELSE <<>>)
  \o (IF PlotOn(cfg, "enable_correlation")
      THEN <<Ev(at, "plot_correlations", dir, key, "", "", <<>>)>>
      ELSE <<>>)

\* create_output_dirs
create_output_dirs ==
  << Ev("dirs", "makedirs", "out", "", "", "", <<>>),
     Ev("dirs", "makedirs", "out", "", "single_distributions", "", <<>>) >>

\* The first block of the group pass that runs after each block.
AfterCompare(cfg) ==
  IF PlotOn(cfg, "enable_all_columns_compare") THEN "allcols" ELSE "return"

AfterBox(cfg) ==
  IF PlotOn(cfg, "enable_group_boxplot") THEN "compare" ELSE AfterCompare(cfg)

AfterDist(cfg, grps) ==
  IF PlotOn(cfg, "enable_group_boxplot") /\ grps # <<>> THEN "box" ELSE AfterBox(cfg)

AfterSplit(cfg, grps) ==
  IF PlotOn(cfg, "enable_distribution") /\ grps # <<>> THEN "dist"
  ELSE AfterDist(cfg, grps)

\* The stage the run is in once control is at `next`.
StageAt(next, now) == IF next = "return" THEN "PerGroupReported" ELSE now

\* The calls `calls` made in order: all of them, or those before the one
\* that raises.
RunCalls(pre, calls, next) ==
  \E k \in 0..Len(calls) :
    /\ log' = log \o pre \o SubSeq(calls, 1, k)
    /\ IF k = Len(calls)
       THEN pc' = next /\ exc' = exc
       ELSE pc' = "except" /\ exc' = "RenderError"

\* ------------------------------------------------------------------- Init
Init ==
  /\ pc = "idle"
  /\ stage = "Init"
  /\ config \in Configs
  /\ interactive \in BOOLEAN
  /\ df = <<>>
  /\ diag = <<>>
  /\ log = <<>>
  /\ output_dir = None
  /\ data_columns = <<>>
  /\ prep = NoPrep
  /\ spec_data = <<>>
  /\ actual_data = <<>>
  /\ groups = <<>>
  /\ gi = 1
  /\ group_data = <<>>
  /\ exc = "none"
  /\ result = [kind |-> "running", value |-> None]
\* ---------------------------------------------------------------- actions
Raise(e) == pc' = "except" /\ exc' = e

group_config(cfg) == Get(cfg.DATA_PROCESSING, "group_analysis", EmptyDict)

group_by(cfg) == Get(group_config(cfg), "group_by", None)

\* `if group_by and group_by in df.columns`
GroupColumnFound(cfg) ==
  group_by(cfg) \notin {None, ""} /\ group_by(cfg) \in ColumnSet

\* analyze_data is called: setup_matplotlib(), plt.ioff().
Start ==
  /\ pc = "idle"
  /\ interactive' = FALSE
  /\ pc' = "read"
  /\ UNCHANGED <<stage, config, df, diag, log, output_dir, data_columns, prep,
                 spec_data, actual_data, groups, gi, group_data, exc, result>>

\* pd.read_excel(data_path): a sheet, or the file cannot be read.
Load ==
  /\ pc = "read"
  /\ \/ \E sheet \in Sheets :
          /\ df' = WithIndex(sheet)
          /\ pc' = "check"
          /\ stage' = "Loaded"
          /\ exc' = exc
     \/ /\ Raise("SourceReadError")
        /\ UNCHANGED <<df, stage>>
  /\ UNCHANGED <<config, diag, log, interactive, output_dir, data_columns, prep,
                 spec_data, actual_data, groups, gi, group_data, result>>

\* The check stage: the invalid values of every numeric column are printed.
Check ==
  /\ pc = "check"
  /\ diag' = CheckPrints(df)
  /\ pc' = "clean"
  /\ stage' = "Checked"
  /\ UNCHANGED <<config, df, log, interactive, output_dir, data_columns, prep,
                 spec_data, actual_data, groups, gi, group_data, exc, result>>

\* df = clean_data(df, config): the cleaned frame, or the data is rejected.
Clean ==
  /\ pc = "clean"
  /\ \/ \E policy \in CleaningPolicies :
          /\ df' = clean_data(df, policy)
          /\ pc' = "dirs"
          /\ stage' = "Cleaned"
          /\ exc' = exc
     \/ /\ \E i \in 1..Len(df) : \E c \in NumericDtype :
             ~spec_mask(df[i]) /\ ~IsFinite(df[i][c])
        /\ Raise("DataQualityError")
        /\ UNCHANGED <<df, stage>>
  /\ UNCHANGED <<config, diag, log, interactive, output_dir, data_columns, prep,
                 spec_data, actual_data, groups, gi, group_data, result>>

\* create_output_dirs(data_path); get_data_columns(df, config).
CreateDirs ==
  /\ pc = "dirs"
  /\ log' = log \o create_output_dirs
  /\ output_dir' = "out"
  /\ data_columns' = get_data_columns(df, config)
  /\ pc' = "overall_prep"
  /\ UNCHANGED <<stage, config, df, diag, interactive, prep, spec_data,
                 actual_data, groups, gi, group_data, exc, result>>

\* The overall pass with the rejection of preprocess_data swallowed.
PreprocessOverallUnchecked ==
  /\ pc = "overall_prep"
  /\ prep' = preprocess_data(df)
  /\ pc' = "overall_plots"
  /\ UNCHANGED <<stage, config, df, diag, log, interactive, output_dir,
                 data_columns, spec_data, actual_data, groups, gi, group_data,
                 exc, result>>

\* preprocess_data(df) of the overall pass.
PreprocessOverall ==
  /\ pc = "overall_prep"
  /\ \/ /\ ~AmbiguousSpecRows(df)
        /\ prep' = preprocess_data(df)
        /\ pc' = "overall_plots"
        /\ exc' = exc
     \/ /\ AmbiguousSpecRows(df)
        /\ Raise("ConfigurationError")
        /\ prep' = prep
  /\ UNCHANGED <<stage, config, df, diag, log, interactive, output_dir,
                 data_columns, spec_data, actual_data, groups, gi, group_data,
                 result>>

\* generate_plots(...) of the overall pass.
GeneratePlotsOverall ==
  /\ pc = "overall_plots"
  /\ RunCalls(<<>>, generate_plots(data_columns, "out", "", config, "overall"),
              "group_config")
  /\ stage' = IF pc' = "except" THEN stage ELSE "OverallReported"
  /\ UNCHANGED <<config, df, diag, interactive, output_dir, data_columns, prep,
                 spec_data, actual_data, groups, gi, group_data, result>>

\* The group configuration is read; the frame is split when the group
\* column is there.
GroupConfig ==
  /\ pc = "group_config"
  /\ \/ /\ ~Get(group_config(config), "enabled", FALSE)
        /\ pc' = "return"
        /\ UNCHANGED <<stage, log, spec_data, actual_data, groups>>
     \/ /\ Get(group_config(config), "enabled", FALSE)
        /\ ~GroupColumnFound(config)
        /\ log' = Append(log, Ev("group_config", "warn", "", "", "", "", <<>>))
        /\ pc' = "return"
        /\ UNCHANGED <<stage, spec_data, actual_data, groups>>
     \/ /\ Get(group_config(config), "enabled", FALSE)
        /\ GroupColumnFound(config)
        /\ spec_data' = SpecRowsOf(df)
        /\ actual_data' = DataRowsOf(df)
        /\ groups' = GroupKeys(actual_data', group_by(config))
        /\ pc' = AfterSplit(config, groups')
        /\ stage' = StageAt(pc', stage)
        /\ log' = log
  /\ UNCHANGED <<config, df, diag, interactive, output_dir, data_columns, prep,
                 gi, group_data, exc, result>>
\* The round without its makedirs calls.
DistPrepareNoDirs(name, gd) ==
  << Ev("dist", "preprocess_data", "group", name, "", "", gd) >>

\* What one round of the distribution loop does before its reports: the
\* group's two directories, then preprocess_data on the group's frame.
DistPrepare(name, gd) ==
  << Ev("dist", "makedirs", "group", name, "", "", <<>>),
     Ev("dist", "makedirs", "group", name, "single_distributions", "", <<>>),
     Ev("dist", "preprocess_data", "group", name, "", "", gd) >>

\* One round of `for group_name in groups` of the distribution sub-pass.
DistGroup ==
  /\ pc = "dist"
  /\ LET name == groups[gi]
         gd   == GroupFrame(spec_data, actual_data, group_by(config), name)
         last == gi = Len(groups)
     IN  /\ group_data' = gd
         /\ IF AmbiguousSpecRows(gd)
            THEN /\ log' = log \o SubSeq(DistPrepare(name, gd), 1, 2)
                 /\ Raise("ConfigurationError")
                 /\ prep' = prep
            ELSE /\ prep' = preprocess_data(gd)
                 /\ RunCalls(DistPrepare(name, gd),
                             generate_plots(data_columns, "group", name, config, "dist"),
                             IF last THEN AfterDist(config, groups) ELSE "dist")
         /\ gi' = IF pc' = "except" THEN gi ELSE IF last THEN 1 ELSE gi + 1
  /\ stage' = StageAt(pc', stage)
  /\ UNCHANGED <<config, df, diag, interactive, output_dir, data_columns,
                 spec_data, actual_data, groups, result>>

\* What one round of the boxplot loop does before its plot.
BoxPrepare(name, gd) ==
  << Ev("box", "makedirs", "group", name, "", "", <<>>),
     Ev("box", "preprocess_data", "group", name, "", "", gd) >>

\* One round of `for group_name in groups` of the boxplot sub-pass.
BoxGroup ==
  /\ pc = "box"
  /\ LET name == groups[gi]
         gd   == GroupFrame(spec_data, actual_data, group_by(config), name)
         last == gi = Len(groups)
     IN  /\ group_data' = gd
         /\ IF AmbiguousSpecRows(gd)
            THEN /\ log' = log \o SubSeq(BoxPrepare(name, gd), 1, 1)
                 /\ Raise("ConfigurationError")
                 /\ prep' = prep
            ELSE /\ prep' = preprocess_data(gd)
                 /\ RunCalls(BoxPrepare(name, gd),
                             <<Ev("box", "plot_boxplots", "group", name, "", "boxplot.png", <<>>)>>,
                             IF last THEN AfterBox(config) ELSE "box")
         /\ gi' = IF pc' = "except" THEN gi ELSE IF last THEN 1 ELSE gi + 1
  /\ stage' = StageAt(pc', stage)
  /\ UNCHANGED <<config, df, diag, interactive, output_dir, data_columns,
                 spec_data, actual_data, groups, result>>

\* The per-column group comparison plots.
Compare ==
  /\ pc = "compare"
  /\ RunCalls(<<Ev("compare", "makedirs", "comparison", "", "", "", <<>>)>>,
              [i \in 1..Len(data_columns) |->
                 Ev("compare", "plot_group_boxplots", "comparison", "", "",
                    data_columns[i], <<>>)],
              AfterCompare(config))
  /\ stage' = StageAt(pc', stage)
  /\ UNCHANGED <<config, df, diag, interactive, output_dir, data_columns, prep,
                 spec_data, actual_data, groups, gi, group_data, result>>

\* The all-columns group comparison plot.
AllColumns ==
  /\ pc = "allcols"
  /\ RunCalls(<<Ev("allcols", "makedirs", "comparison", "", "", "", <<>>)>>,
              <<Ev("allcols", "plot_all_columns_by_group", "comparison", "", "",
                   "all_columns_comparison.png", <<>>)>>,
              "return")
  /\ stage' = StageAt(pc', stage)
  /\ UNCHANGED <<config, df, diag, interactive, output_dir, data_columns, prep,
                 spec_data, actual_data, groups, gi, group_data, result>>

\* `return output_dir` inside the try: the finally clause runs next.
Return ==
  /\ pc = "return"
  /\ pc' = "finally"
  /\ stage' = "Done"
  /\ UNCHANGED <<config, df, diag, log, interactive, output_dir, data_columns,
                 prep, spec_data, actual_data, groups, gi, group_data, exc, result>>

\* The handler without its `raise`: the error is printed and dropped.
ExceptSwallow ==
  /\ pc = "except"
  /\ pc' = "finally"
  /\ exc' = "none"
  /\ UNCHANGED <<stage, config, df, diag, log, interactive, output_dir,
                 data_columns, prep, spec_data, actual_data, groups, gi,
                 group_data, result>>

\* `except Exception as e`: the error is printed and raised again.
Except ==
  /\ pc = "except"
  /\ pc' = "finally"
  /\ exc' = exc
  /\ UNCHANGED <<stage, config, df, diag, log, interactive, output_dir,
                 data_columns, prep, spec_data, actual_data, groups, gi,
                 group_data, result>>

\* plt.ion() before the return only, not in a finally clause.
FinallyOnReturnOnly ==
  /\ pc = "finally"
  /\ interactive' = (exc = "none")
  /\ result' = IF exc = "none" THEN [kind |-> "returned", value |-> output_dir]
               ELSE [kind |-> "raised", value |-> exc]
  /\ pc' = "done"
  /\ UNCHANGED <<stage, config, df, diag, log, output_dir, data_columns, prep,
                 spec_data, actual_data, groups, gi, group_data, exc>>

\* `finally`: plt.ion(); then the pending return or exception leaves the call.
Finally ==
  /\ pc = "finally"
  /\ interactive' = TRUE
  /\ result' = IF exc = "none" THEN [kind |-> "returned", value |-> output_dir]
               ELSE [kind |-> "raised", value |-> exc]
  /\ pc' = "done"
  /\ UNCHANGED <<stage, config, df, diag, log, output_dir, data_columns, prep,
                 spec_data, actual_data, groups, gi, group_data, exc>>

Next ==
  \/ Start
  \/ Load
  \/ Check
  \/ Clean
  \/ CreateDirs
  \/ PreprocessOverall
  \/ GeneratePlotsOverall
  \/ GroupConfig
  \/ DistGroup
  \/ BoxGroup
  \/ Compare
  \/ AllColumns
  \/ Return
  \/ Except
  \/ Finally

Spec == Init /\ [][Next]_vars
\* ------------------------------------------------------------- properties
\* The log's events of one block and one kind, in order.
EventsOf(at, op) == SelectSeq(log, LAMBDA e : e.at = at /\ e.op = op)

\* The group frames a sub-pass built, in the order it built them.
Frames(at) == EventsOf(at, "preprocess_data")

\* Every group of the split had its frame built by the sub-pass.
PassBuiltAll(at) == groups # <<>> /\ Len(Frames(at)) = Len(groups)

\* The frames of a sub-pass that hold the data row with index label n.
FramesHolding(at, n) ==
  { j \in 1..Len(Frames(at)) :
      \E k \in 1..Len(Frames(at)[j].data) :
        /\ Frames(at)[j].data[k].idx = n
        /\ ~spec_mask(Frames(at)[j].data[k]) }

\* C1: once a sub-pass of the group pass has built the frame of every key
\* that unique() returned, every data row of the frame that was split is in
\* exactly one of these group frames: none is lost, a row with a missing
\* group value included, and none is in two.
C1_Partition ==
  \A at \in {"dist", "box"} :
    PassBuiltAll(at) =>
      \A i \in 1..Len(df) :
        ~spec_mask(df[i]) => Cardinality(FramesHolding(at, df[i].idx)) = 1

IdxOf(rows) == {rows[i].idx : i \in 1..Len(rows)}

\* A group frame as the claim describes it, for the frame `parent` that was
\* split: the LSL/USL rows of the parent, unchanged and first, then exactly
\* the data rows whose group value equals the key.
IsGroupFrameOf(gd, key, parent, col) ==
  /\ SelectSeq(gd, LAMBDA r : r.SN \in {"LSL", "USL"})
       = SelectSeq(parent, LAMBDA r : r.SN \in {"LSL", "USL"})
  /\ \A i, j \in 1..Len(gd) :
       (gd[i].SN \in {"LSL", "USL"} /\ gd[j].SN \notin {"LSL", "USL"}) => i < j
  /\ \A i \in 1..Len(gd) : \E k \in 1..Len(parent) : gd[i] = parent[k]
  /\ \A i, j \in 1..Len(gd) : i # j => gd[i].idx # gd[j].idx
  /\ IdxOf(SelectSeq(gd, LAMBDA r : r.SN \notin {"LSL", "USL"}))
       = { parent[k].idx : k \in { n \in 1..Len(parent) :
                                     /\ parent[n].SN \notin {"LSL", "USL"}
                                     /\ parent[n][col] # NaN
                                     /\ parent[n][col] = key } }

DataBatches == ColumnValues(SelectSeq(df, LAMBDA r : r.SN \notin {"LSL", "USL"}), "Batch")

\* The sheet of the example: group values A, A, B on the data rows, one LSL
\* row and one USL row.
ExampleSheet ==
  /\ DataBatches = <<"A", "A", "B">>
  /\ Len(SelectSeq(df, LAMBDA r : r.SN = "LSL")) = 1
  /\ Len(SelectSeq(df, LAMBDA r : r.SN = "USL")) = 1

NoDirectoryCreated == \A i \in 1..Len(log) : log[i].op # "makedirs"

\* C3: a run with grouping enabled whose group_by names no column of the
\* frame (or names nothing) ends with a ConfigurationError and has created
\* no output directory.
C3_MissingGroupColumnRaises ==
  ( /\ pc = "done"
    /\ GroupingEnabled(config)
    /\ ~GroupColumnFound(config)
    /\ ~AmbiguousSpecRows(df)
    /\ exc \in {"none", "ConfigurationError"} )
  => /\ result = [kind |-> "raised", value |-> "ConfigurationError"]
     /\ NoDirectoryCreated
StageSteps ==
  { <<"Init", "Loaded">>, <<"Loaded", "Checked">>, <<"Checked", "Cleaned">>,
    <<"Cleaned", "OverallReported">>, <<"OverallReported", "Done">>,
    <<"OverallReported", "PerGroupReported">>, <<"PerGroupReported", "Done">> }

GroupBlocks == {"dist", "box", "compare", "allcols"}

\* The events a step adds to the log.
Added == SubSeq(log', Len(log) + 1, Len(log'))

\* C4: a run moves through the stages Init, Loaded, Checked, Cleaned,
\* OverallReported and then to Done, directly when grouping is disabled
\* (the group_analysis key or its enabled flag absent included) and through
\* PerGroupReported when grouping is enabled; no stage is skipped or
\* repeated, the frame is cleaned only after it was loaded and checked, and
\* no group report is made before the overall report is complete.
C4_StageOrder ==
  [][ /\ stage' # stage => <<stage, stage'>> \in StageSteps
      /\ (stage = "OverallReported" /\ stage' = "Done") => ~GroupingEnabled(config)
      /\ stage' = "PerGroupReported" => GroupingEnabled(config)
      /\ (pc = "clean" /\ pc' = "dirs") => stage = "Checked"
      /\ \A i \in 1..Len(Added) :
           Added[i].at \in GroupBlocks => stage = "OverallReported"
    ]_vars

\* C5: whenever analyze_data has left, by return or by exception, the
\* interactive mode that it switched off is on again.
C5_InteractiveRestored ==
  /\ pc = "done" => interactive
  /\ result.kind # "running" => interactive
  /\ pc \notin {"idle", "done"} => ~interactive

\* C5 witness: a run that failed inside the group pass has left with the
\* interactive mode on.
C5_Witness ==
  /\ pc = "done"
  /\ result.kind = "raised"
  /\ \E i \in 1..Len(log) : log[i].at = "dist"
  /\ interactive
\* The frame has been split and its group keys enumerated.
SplitDone == pc \in GroupBlocks \/ stage = "PerGroupReported"

\* The position of the first data row whose group value is v.
FirstData(v) ==
  CHOOSE i \in 1..Len(DataBatches) :
    DataBatches[i] = v /\ \A j \in 1..(i - 1) : DataBatches[j] # v

\* The keys of the frames a sub-pass built, in the order it built them.
KeysHandled(at) == [j \in 1..Len(Frames(at)) |-> Frames(at)[j].key]

\* C6: the group keys are the distinct group values of the data rows, each
\* once, in the order of their first occurrence among the data rows; a value
\* that only an LSL/USL row carries is no key; and each sub-pass handles the
\* groups in that order.
C6_KeyOrder ==
  /\ SplitDone =>
       /\ {groups[i] : i \in 1..Len(groups)} = {DataBatches[i] : i \in 1..Len(DataBatches)}
       /\ \A i, j \in 1..Len(groups) : i # j => groups[i] # groups[j]
       /\ \A i, j \in 1..Len(groups) : i < j => FirstData(groups[i]) < FirstData(groups[j])
  /\ \A at \in {"dist", "box"} :
       /\ Len(KeysHandled(at)) <= Len(groups)
       /\ KeysHandled(at) = SubSeq(groups, 1, Len(KeysHandled(at)))

\* C6 witness: the keys B, A were enumerated for a sheet whose USL row
\* carries a group value of its own, and both groups were handled.
C6_Witness ==
  /\ groups = <<"B", "A">>
  /\ \E i \in 1..Len(df) : df[i].SN = "USL" /\ df[i].Batch = "S"
  /\ KeysHandled("dist") = <<"B", "A">>

ReportOps == {"export_statistics", "plot_distributions", "plot_single_distribution",
              "plot_boxplots", "plot_correlations", "plot_group_boxplots",
              "plot_all_columns_by_group"}

NoReport == \A i \in 1..Len(log) : log[i].op \notin ReportOps

\* Control is past the preprocess_data call of the overall pass.
PastOverallPrep ==
  pc \in {"overall_plots", "group_config", "return"} \cup GroupBlocks

ReportsInvalidOf(dg, d) ==
  LET bad(c) == {i \in 1..Len(d) : d[i][c] \in {"nan", "inf", "-inf"}}
      cols   == SelectSeq(numeric_columns(d), LAMBDA c : bad(c) # {})
  IN  IF cols = <<>>
      THEN dg = <<[msg |-> "none_found", col |-> "", n |-> 0]>>
      ELSE dg = [k \in 1..Len(cols) |->
                   [msg |-> "invalid", col |-> cols[k], n |-> Cardinality(bad(cols[k]))]]

\* C8: the check stage prints the count of non-finite values of every
\* numeric column of the loaded frame and changes no value of it; the frame
\* is first changed by clean_data, after these prints.
C8_DiagnosticsBeforeCleaning ==
  [][ /\ pc = "check" => (df' = df /\ ReportsInvalidOf(diag', df))
      /\ pc = "clean" => ReportsInvalidOf(diag, df)
      /\ (df' # df /\ stage # "Init") => (pc = "clean" /\ diag' = diag)
    ]_vars

\* C8 witness: the check reported invalid values in Width and in Height, and
\* clean_data then changed the frame.
C8_Witness ==
  /\ pc = "dirs"
  /\ Len(diag) = 2
  /\ diag[1].n = 2
  /\ ~ReportsInvalidOf(diag, df)

\* C9: once an error is raised nothing more of the run happens: no output,
\* no change of the frame, no stage, no group; the error leaves the call as
\* the exception it was and no output directory is returned.
C9_ErrorAborts ==
  [][ /\ exc # "none" =>
           /\ exc' = exc
           /\ log' = log /\ df' = df /\ stage' = stage /\ gi' = gi
           /\ pc' \in {"finally", "done"}
      /\ (exc # "none" /\ pc' = "done") => result' = [kind |-> "raised", value |-> exc]
      /\ result'.kind = "returned" => (exc = "none" /\ stage = "Done")
    ]_vars

\* C9 witness: the first group's reports failed with a second group still
\* to come, and the run ended with the error.
C9_Witness ==
  /\ pc = "done"
  /\ result = [kind |-> "raised", value |-> "RenderError"]
  /\ Len(groups) = 2
  /\ Len(Frames("dist")) = 1
BlockRank(at) ==
  CASE at = "dirs" -> 0
    [] at = "overall" -> 1
    [] at = "group_config" -> 2
    [] at = "dist" -> 3
    [] at = "box" -> 4
    [] at = "compare" -> 5
    [] at = "allcols" -> 6

KeyPos(k) == CHOOSE n \in 1..Len(groups) : groups[n] = k

\* Before the log's event i, the same block made the directory that event i
\* writes into.
DirMadeBefore(i) ==
  \E m \in 1..(i - 1) :
    /\ log[m].op = "makedirs"
    /\ log[m].at = log[i].at \/ (log[i].at = "overall" /\ log[m].at = "dirs")
    /\ <<log[m].dir, log[m].key, log[m].sub>> = <<log[i].dir, log[i].key, log[i].sub>>

\* Before the log's event i, the same block preprocessed the same group.
PreprocessedBefore(i) ==
  \E m \in 1..(i - 1) :
    /\ log[m].op = "preprocess_data"
    /\ log[m].at = log[i].at
    /\ log[m].key = log[i].key

\* C10: the group pass runs one step after the other in a fixed order: the
\* distribution sub-pass handles the groups one by one in key order, making
\* a group's directories and preprocessing its frame before that group's
\* reports; the boxplot sub-pass does the same and starts only when the
\* distribution sub-pass is over; the comparison outputs come after both.
C10_SequentialGroupPass ==
  /\ \A i, j \in 1..Len(log) : i < j => BlockRank(log[i].at) <= BlockRank(log[j].at)
  /\ \A i, j \in 1..Len(log) :
       (i < j /\ log[i].at = log[j].at /\ log[i].at \in {"dist", "box"})
         => KeyPos(log[i].key) <= KeyPos(log[j].key)
  /\ \A i \in 1..Len(log) :
       log[i].op \in ReportOps =>
         /\ DirMadeBefore(i)
         /\ log[i].at \in {"dist", "box"} => PreprocessedBefore(i)

\* C10 witness: a run over two groups made all four kinds of group output
\* and returned.
C10_Witness ==
  /\ pc = "done"
  /\ result.kind = "returned"
  /\ Len(groups) = 2
  /\ \A at \in GroupBlocks : \E i \in 1..Len(log) : log[i].at = at /\ log[i].op \in ReportOps
====
